---- MODULE Spec2Model ----
(***************************************************************************)
(* A model of the to-do service of src/main.py: the users and todos tables *)
(* of todo.db, the API-key dependency, and the five request handlers.      *)
(* Two specifications are given.  Spec serves one request at a time, each  *)
(* handler being one step.  WorkersSpec lets several requests be in flight *)
(* on the same todo.db, one step per store call (conn.execute + commit).   *)
(***************************************************************************)
EXTENDS Integers, Sequences, FiniteSets, TLC

VARIABLES
    users,        \* rows of table users
    todos,        \* rows of table todos
    user_seq,     \* sqlite_sequence of users (AUTOINCREMENT)
    todo_seq,     \* sqlite_sequence of todos (AUTOINCREMENT)
    req,          \* the request being answered: endpoint, header, path id,
                  \* and the email of a registration
    resp,         \* its response
    calls,        \* the SQL statements it ran, in order
    issued,       \* history: the API keys handed out, with the user created
    deleted,      \* history: the ids of the todos deleted
    last_create,  \* history: the create that the request answered follows
    inflight      \* WorkersSpec only: each worker's request and position

vars == <<users, todos, user_seq, todo_seq, req, resp, calls, issued,
          deleted, last_create, inflight>>

-----------------------------------------------------------------------------
(* The bound of the model: the number of todos ever created. *)

MaxTodos == 2

-----------------------------------------------------------------------------
(* Values.  Python's None and SQL's NULL are the empty tuple; a present    *)
(* value v is <<v>>.                                                       *)

None == <<>>

Some(v) == <<v>>

Names == {"n"}

Emails == {"a@x", "b@x"}

\* The values secrets.token_urlsafe(32) may return, in the order in which
\* new ones come up.
TokenPool == <<"k1", "k2">>

Tokens == {TokenPool[i] : i \in DOMAIN TokenPool}

\* What a client may put in the X-API-Key header: nothing, or a string,
\* be it a token or not.
Headers == {None} \cup {Some(k) : k \in Tokens \cup {"k0"}}

Titles == {"", "t"}

Descriptions == {None, Some("d")}

TaskStatus == {"pending", "completed"}

\* TodoCreate: title is a str (any, the empty one included), description
\* is optional.
TodoCreate == [title : Titles, description : Descriptions]

\* TodoUpdate: every field optional, None when not supplied (a JSON null
\* is read as None too).
TodoUpdate == [title : {None} \cup {Some(t) : t \in Titles},
               description : Descriptions,
               status : {None} \cup {Some(s) : s \in TaskStatus}]

TodoIds == 1..MaxTodos

-----------------------------------------------------------------------------
(* The store. *)

\* As UserIntegrityError, had api_key not been declared UNIQUE.
EmailIntegrityError(us, email, api_key) ==
    \E u \in us : u.email = email

\* As UserIntegrityError, had email not been declared UNIQUE.
KeyIntegrityError(us, email, api_key) ==
    \E u \in us : u.api_key = api_key

\* users.email and users.api_key are UNIQUE: the INSERT raises
\* sqlite3.IntegrityError when either is taken.
UserIntegrityError(us, email, api_key) ==
    \E u \in us : u.email = email \/ u.api_key = api_key

\* As Autoincrement, had the id been a plain INTEGER PRIMARY KEY: one more
\* than the largest id in the table, so that the id of a deleted last row
\* is given again.
RowidReuse(rows, seq) ==
    IF rows = {} THEN 1
    ELSE (CHOOSE r \in rows : \A q \in rows : q.id <= r.id).id + 1

\* INTEGER PRIMARY KEY AUTOINCREMENT: one more than the largest id ever
\* given, whether or not its row is still there.
Autoincrement(rows, seq) == seq + 1

\* DEFAULT CURRENT_TIMESTAMP: the clock at the INSERT.  The clock is a
\* logical one, which each row inserted into the table advances.
CurrentTimestamp(seq) == seq

\* "SELECT * FROM users WHERE api_key = ?", fetchone().
SelectUserByKey(us, api_key) ==
    LET found == {u \in us : u.api_key = api_key}
    IN  IF found = {} THEN None
        ELSE Some(CHOOSE u \in found : \A v \in found : u.id <= v.id)

\* As SelectOwned, without "AND user_id = ?".
SelectAnyOwner(ts, todo_id, user_id) ==
    LET found == {t \in ts : t.id = todo_id}
    IN  IF found = {} THEN None ELSE Some(CHOOSE t \in found : TRUE)

\* "SELECT * FROM todos WHERE id = ? AND user_id = ?", fetchone().
SelectOwned(ts, todo_id, user_id) ==
    LET found == {t \in ts : t.id = todo_id /\ t.user_id = user_id}
    IN  IF found = {} THEN None ELSE Some(CHOOSE t \in found : TRUE)

\* As SelectByUser, without the WHERE clause.
SelectAll(ts, user_id) == ts

\* "SELECT * FROM todos WHERE user_id = ?", fetchall().
SelectByUser(ts, user_id) == {t \in ts : t.user_id = user_id}

\* As InsertTodo, with the description left out of the INSERT.
InsertTitleOnly(ts, seq, todo, user_id) ==
    [id |-> Autoincrement(ts, seq), title |-> todo.title,
     description |-> None, status |-> "pending",
     user_id |-> user_id, created_at |-> CurrentTimestamp(seq)]

\* The row "INSERT INTO todos (title, description, user_id)" makes: status
\* and created_at take their column defaults.
InsertTodo(ts, seq, todo, user_id) ==
    [id |-> Autoincrement(ts, seq), title |-> todo.title,
     description |-> todo.description, status |-> "pending",
     user_id |-> user_id, created_at |-> CurrentTimestamp(seq)]

\* As UpdateFields, with "if v" in place of "if v is not None": an empty
\* string is dropped too.
UpdateFieldsTruthy(todo_update) ==
    {k \in {"title", "description", "status"} :
        todo_update[k] # None /\ todo_update[k] # Some("")}

\* update_fields: the fields of the TodoUpdate that are not None.
UpdateFields(todo_update) ==
    {k \in {"title", "description", "status"} : todo_update[k] # None}

\* One row after "SET k = ?" for each k of update_fields.
SetClause(row, todo_update) ==
    [row EXCEPT
        !.title = IF "title" \in UpdateFields(todo_update)
                  THEN todo_update.title[1] ELSE @,
        !.description = IF "description" \in UpdateFields(todo_update)
                        THEN todo_update.description ELSE @,
        !.status = IF "status" \in UpdateFields(todo_update)
                   THEN todo_update.status[1] ELSE @]

\* "UPDATE todos SET ... WHERE id = ?": the rows after the statement.
UpdateWhereId(ts, todo_id, todo_update) ==
    {IF t.id = todo_id THEN SetClause(t, todo_update) ELSE t : t \in ts}

\* "DELETE FROM todos WHERE id = ?".
DeleteWhereId(ts, todo_id) == {t \in ts : t.id # todo_id}

\* response_model=Todo: the fields of a row that the response carries.
Todo(row) ==
    [id |-> row.id, title |-> row.title, description |-> row.description,
     status |-> row.status, created_at |-> row.created_at]

-----------------------------------------------------------------------------
(* Requests, responses and authentication. *)

Response(status, detail) ==
    [status |-> status, detail |-> detail, message |-> "",
     api_key |-> None, rows |-> {}]

Request(op, header, todo_id, email) ==
    [op |-> op, header |-> header, todo_id |-> todo_id, email |-> email]

NoRequest == Request("", None, 0, "")

NoResponse == Response(0, "")

\* APIKeyHeader(name="X-API-Key") rejects a request without the header by
\* itself, before get_current_user runs.  The status it answers with is the
\* framework's: 403 in the releases before 0.122, 401 from then on.
NotAuthenticatedStatus == {401, 403}

\* secrets.token_urlsafe(32): a random string, which is the key of a stored
\* user or is not; the strings that are not are taken from TokenPool in order.
token_urlsafe(us) ==
    LET stored == {u.api_key : u \in us}
        fresh == {i \in DOMAIN TokenPool : TokenPool[i] \notin stored}
        first == {j \in fresh : \A k \in fresh : j <= k}
    IN  stored \cup {TokenPool[i] : i \in first}

\* get_current_user: the user row of the key, or None for the 401.
get_current_user(us, api_key) == SelectUserByKey(us, api_key)

Authenticated(header) ==
    /\ header # None
    /\ get_current_user(users, header[1]) # None

CurrentUser(header) == get_current_user(users, header[1])[1]

-----------------------------------------------------------------------------
(* The initial state: the tables init_db creates, empty. *)

Workers == {"w1", "w2"}

Idle == [pc |-> "idle", op |-> "", user_id |-> 0, todo_id |-> 0,
         todo_update |-> None, todo |-> None, status |-> 0]

init_db ==
    /\ users = {}
    /\ todos = {}
    /\ user_seq = 0
    /\ todo_seq = 0

Init ==
    /\ init_db
    /\ req = NoRequest
    /\ resp = NoResponse
    /\ calls = <<>>
    /\ issued = {}
    /\ deleted = {}
    /\ last_create = None
    /\ inflight = [w \in Workers |-> Idle]

-----------------------------------------------------------------------------
(* The handlers, one request at a time. *)

TaskEndpoints == {"create_todo", "read_todos", "update_todo", "delete_todo"}

\* Depends(get_current_user) fails: the request to a todo endpoint ends in
\* the dependency and no handler body runs.
unauthenticated(op, header, todo_id) ==
    /\ req = NoRequest
    /\ req' = Request(op, header, todo_id, "")
    /\ \/ /\ header = None
          /\ \E s \in NotAuthenticatedStatus :
                resp' = Response(s, "Not authenticated")
          /\ calls' = <<>>
       \/ /\ header # None
          /\ get_current_user(users, header[1]) = None
          /\ resp' = Response(401, "Invalid API key")
          /\ calls' = <<"SELECT users">>
    /\ UNCHANGED <<users, todos, user_seq, todo_seq, issued, deleted,
                   last_create, inflight>>

\* POST /generate-api-key
generate_api_key(name, email) ==
    \E api_key \in token_urlsafe(users) :
        /\ req = NoRequest
        /\ req' = Request("generate_api_key", None, 0, email)
        /\ calls' = <<"INSERT users">>
        /\ IF UserIntegrityError(users, email, api_key)
           THEN /\ resp' = Response(400, "Email already registered")
                /\ UNCHANGED <<users, user_seq, issued>>
           ELSE LET row == [id |-> Autoincrement(users, user_seq),
                            name |-> name, email |-> email,
                            api_key |-> api_key,
                            created_at |-> CurrentTimestamp(user_seq)]
                IN  /\ users' = users \cup {row}
                    /\ user_seq' = row.id
                    /\ resp' = [Response(200, "") EXCEPT
                                    !.api_key = Some(api_key)]
                    /\ issued' = issued \cup
                            {[api_key |-> api_key, user_id |-> row.id,
                              email |-> email]}
        /\ UNCHANGED <<todos, todo_seq, deleted, last_create, inflight>>

\* POST /todos/
create_todo(header, todo) ==
    /\ req = NoRequest
    /\ todo_seq < MaxTodos
    /\ req' = Request("create_todo", header, 0, "")
    /\    /\ Authenticated(header)
          /\ LET user_id == CurrentUser(header).id
                 result == InsertTodo(todos, todo_seq, todo, user_id)
             IN  /\ todos' = todos \cup {result}
                 /\ todo_seq' = result.id
                 /\ resp' = [Response(200, "") EXCEPT
                                !.rows = {Todo(result)}]
                 /\ last_create' =
                        Some([todo |-> todo, id |-> result.id,
                              user_id |-> user_id,
                              first |-> SelectByUser(todos, user_id) = {}])
          /\ calls' = <<"SELECT users", "INSERT todos">>
          /\ UNCHANGED <<users, user_seq, issued, deleted, inflight>>

\* GET /todos/.  A list may also follow a create at once.
read_todos(header) ==
    /\ req = NoRequest \/ req.op = "create_todo"
    /\ req' = Request("read_todos", header, 0, "")
    /\    /\ Authenticated(header)
          /\ resp' = [Response(200, "") EXCEPT
                        !.rows = {Todo(t) : t \in
                            SelectByUser(todos, CurrentUser(header).id)}]
          /\ calls' = <<"SELECT users", "SELECT todos">>
          /\ UNCHANGED <<users, todos, user_seq, todo_seq, issued, deleted,
                         last_create, inflight>>

\* PUT /todos/{todo_id}
update_todo(header, todo_id, todo_update) ==
    /\ req = NoRequest
    /\ req' = Request("update_todo", header, todo_id, "")
    /\    /\ Authenticated(header)
          /\ LET todo == SelectOwned(todos, todo_id, CurrentUser(header).id)
             IN  IF todo = None
                 THEN /\ resp' = Response(404, "Todo not found")
                      /\ calls' = <<"SELECT users", "SELECT todos">>
                      /\ UNCHANGED todos
                 ELSE IF UpdateFields(todo_update) # {}
                 THEN /\ todos' = UpdateWhereId(todos, todo_id, todo_update)
                      /\ resp' = [Response(200, "") EXCEPT
                            !.rows = {Todo(t) : t \in
                                {u \in todos' : u.id = todo_id}}]
                      /\ calls' = <<"SELECT users", "SELECT todos",
                                    "UPDATE todos">>
                 ELSE /\ resp' = [Response(200, "") EXCEPT
                                    !.rows = {Todo(todo[1])}]
                      /\ calls' = <<"SELECT users", "SELECT todos">>
                      /\ UNCHANGED todos
          /\ UNCHANGED <<users, user_seq, todo_seq, issued, deleted,
                         last_create, inflight>>

\* DELETE /todos/{todo_id}
delete_todo(header, todo_id) ==
    /\ req = NoRequest
    /\ req' = Request("delete_todo", header, todo_id, "")
    /\    /\ Authenticated(header)
          /\ LET user_id == CurrentUser(header).id
                 todo == SelectOwned(todos, todo_id, user_id)
             IN  IF todo = None
                 THEN /\ resp' = Response(404, "Todo not found")
                      /\ calls' = <<"SELECT users", "SELECT todos">>
                      /\ UNCHANGED <<todos, deleted>>
                 ELSE /\ todos' = DeleteWhereId(todos, todo_id)
                      /\ resp' = [Response(200, "") EXCEPT
                            !.message = "Todo deleted successfully"]
                      /\ calls' = <<"SELECT users", "SELECT todos",
                                    "DELETE todos">>
                      /\ deleted' = deleted \cup {todo_id}
          /\ UNCHANGED <<users, user_seq, todo_seq, issued, last_create,
                         inflight>>

\* The response is sent; the server takes the next request.
Respond ==
    /\ req # NoRequest
    /\ req' = NoRequest
    /\ resp' = NoResponse
    /\ calls' = <<>>
    /\ last_create' = None
    /\ UNCHANGED <<users, todos, user_seq, todo_seq, issued, deleted,
                   inflight>>

Next ==
    \/ \E op \in TaskEndpoints, header \in Headers :
            \/ /\ op \in {"create_todo", "read_todos"}
               /\ unauthenticated(op, header, 0)
            \/ /\ op \in {"update_todo", "delete_todo"}
               /\ \E todo_id \in TodoIds : unauthenticated(op, header, todo_id)
    \/ \E name \in Names, email \in Emails : generate_api_key(name, email)
    \/ \E header \in Headers, todo \in TodoCreate : create_todo(header, todo)
    \/ \E header \in Headers : read_todos(header)
    \/ \E header \in Headers, todo_id \in TodoIds, todo_update \in TodoUpdate :
            update_todo(header, todo_id, todo_update)
    \/ \E header \in Headers, todo_id \in TodoIds : delete_todo(header, todo_id)
    \/ Respond

Spec == Init /\ [][Next]_vars

-----------------------------------------------------------------------------
(* Several requests in flight on the same todo.db.  get_db opens a plain   *)
(* connection: the SELECT of the ownership check runs in autocommit mode,  *)
(* and the UPDATE or DELETE that follows is a transaction of its own, so   *)
(* another connection's statement may commit between the two.  Each step   *)
(* below is one store call of one request.                                 *)

\* A store the service reaches: two users, each owning one todo.
Seeded ==
    /\ users = {[id |-> 1, name |-> "n", email |-> "a@x", api_key |-> "k1",
                 created_at |-> 0],
                [id |-> 2, name |-> "n", email |-> "b@x", api_key |-> "k2",
                 created_at |-> 1]}
    /\ todos = {[id |-> 1, title |-> "t", description |-> None,
                 status |-> "pending", user_id |-> 1, created_at |-> 0],
                [id |-> 2, title |-> "t", description |-> None,
                 status |-> "pending", user_id |-> 2, created_at |-> 1]}
    /\ user_seq = 2
    /\ todo_seq = 2

WorkersInit ==
    /\ Seeded
    /\ req = NoRequest
    /\ resp = NoResponse
    /\ calls = <<>>
    /\ issued = {}
    /\ deleted = {}
    /\ last_create = None
    /\ inflight = [w \in Workers |-> Idle]

\* The bodies the in-flight updates carry: a status, or nothing.
StatusUpdates == {u \in TodoUpdate : u.title = None /\ u.description = None}

Finish(w, status) ==
    inflight' = [inflight EXCEPT ![w].pc = "done", ![w].status = status]

\* The dependency of a PUT or DELETE: get_current_user.
worker_get_current_user(w, op, header, todo_id, todo_update) ==
    /\ inflight[w].pc = "idle"
    /\ IF header = None
       THEN \E s \in NotAuthenticatedStatus :
                inflight' = [inflight EXCEPT ![w] =
                    [Idle EXCEPT !.pc = "done", !.op = op, !.status = s]]
       ELSE LET user == get_current_user(users, header[1])
            IN  IF user = None
                THEN inflight' = [inflight EXCEPT ![w] =
                        [Idle EXCEPT !.pc = "done", !.op = op,
                                     !.status = 401]]
                ELSE inflight' = [inflight EXCEPT ![w] =
                        [Idle EXCEPT !.pc = "check", !.op = op,
                                     !.user_id = user[1].id,
                                     !.todo_id = todo_id,
                                     !.todo_update = todo_update]]
    /\ UNCHANGED <<users, todos, user_seq, todo_seq, req, resp, calls,
                   issued, deleted, last_create>>

\* update_todo, the check: the SELECT, the 404, and the return of the row as
\* read when no field is supplied.
update_check(w) ==
    /\ inflight[w].pc = "check"
    /\ inflight[w].op = "update_todo"
    /\ LET todo == SelectOwned(todos, inflight[w].todo_id, inflight[w].user_id)
       IN  IF todo = None THEN Finish(w, 404)
           ELSE IF UpdateFields(inflight[w].todo_update) = {}
           THEN Finish(w, 200)
           ELSE inflight' = [inflight EXCEPT ![w].pc = "mutate",
                                             ![w].todo = todo]
    /\ UNCHANGED <<users, todos, user_seq, todo_seq, req, resp, calls,
                   issued, deleted, last_create>>

\* update_todo, the mutation: UPDATE ... WHERE id = ? RETURNING *, then
\* dict(cursor.fetchone()), which raises TypeError (a 500) on no row.
update_mutate(w) ==
    /\ inflight[w].pc = "mutate"
    /\ inflight[w].op = "update_todo"
    /\ todos' = UpdateWhereId(todos, inflight[w].todo_id,
                              inflight[w].todo_update)
    /\ IF \E t \in todos : t.id = inflight[w].todo_id
       THEN Finish(w, 200)
       ELSE Finish(w, 500)
    /\ UNCHANGED <<users, user_seq, todo_seq, req, resp, calls, issued,
                   deleted, last_create>>

\* delete_todo, the check.
delete_check(w) ==
    /\ inflight[w].pc = "check"
    /\ inflight[w].op = "delete_todo"
    /\ LET todo == SelectOwned(todos, inflight[w].todo_id, inflight[w].user_id)
       IN  IF todo = None THEN Finish(w, 404)
           ELSE inflight' = [inflight EXCEPT ![w].pc = "mutate",
                                             ![w].todo = todo]
    /\ UNCHANGED <<users, todos, user_seq, todo_seq, req, resp, calls,
                   issued, deleted, last_create>>

\* delete_todo, the mutation: DELETE ... WHERE id = ?, and the confirmation
\* whatever the number of rows removed.
delete_mutate(w) ==
    /\ inflight[w].pc = "mutate"
    /\ inflight[w].op = "delete_todo"
    /\ todos' = DeleteWhereId(todos, inflight[w].todo_id)
    /\ Finish(w, 200)
    /\ UNCHANGED <<users, user_seq, todo_seq, req, resp, calls, issued,
                   deleted, last_create>>

\* The response is sent; the worker takes the next request.
worker_respond(w) ==
    /\ inflight[w].pc = "done"
    /\ inflight' = [inflight EXCEPT ![w] = Idle]
    /\ UNCHANGED <<users, todos, user_seq, todo_seq, req, resp, calls,
                   issued, deleted, last_create>>

WorkersNext ==
    \E w \in Workers :
        \/ \E header \in Headers, todo_id \in TodoIds,
              todo_update \in StatusUpdates :
                worker_get_current_user(w, "update_todo", header, todo_id,
                                        todo_update)
        \/ \E header \in Headers, todo_id \in TodoIds :
                worker_get_current_user(w, "delete_todo", header, todo_id,
                                        None)
        \/ update_check(w)
        \/ update_mutate(w)
        \/ delete_check(w)
        \/ delete_mutate(w)
        \/ worker_respond(w)

WorkersSpec == WorkersInit /\ [][WorkersNext]_vars

-----------------------------------------------------------------------------
(* The properties.  A step of Spec that answers a request sets req' to it, *)
(* so a formula over req', resp' and the tables before and after the step  *)
(* speaks of one request.                                                  *)

\* The users whose stored key is the header's value.
KeyHolders(us, header) == {u \in us : header = Some(u.api_key)}

\* The stored todos with this id that this user owns.
OwnedBy(ts, todo_id, user_id) ==
    {t \in ts : t.id = todo_id /\ t.user_id = user_id}

NotFound == Response(404, "Todo not found")

\* C1: an update or a delete by an authenticated user of a todo id that this
\* user owns no todo under (never created, deleted, or another user's) is
\* answered 404 "Todo not found", the same in every such case, and changes
\* no todo and no user; and a step that changes or removes a stored todo
\* answers an update or delete that carries the key of the todo's owner.
C1_NotOwnedIsNotFound ==
    [][ /\ \A u \in KeyHolders(users, req'.header) :
            (/\ req'.op \in {"update_todo", "delete_todo"}
             /\ OwnedBy(todos, req'.todo_id, u.id) = {})
            => (resp' = NotFound /\ todos' = todos /\ users' = users)
        /\ \A t \in todos : t \notin todos' =>
             /\ req'.op \in {"update_todo", "delete_todo"}
             /\ req'.todo_id = t.id
             /\ \E u \in users :
                    u.id = t.user_id /\ req'.header = Some(u.api_key)
      ]_vars

\* C1 happens: a user's update of a todo that another user owns is answered
\* 404.
C1_Witness ==
    /\ req.op = "update_todo"
    /\ resp = NotFound
    /\ \E u \in KeyHolders(users, req.header) :
          \E t \in todos : t.id = req.todo_id /\ t.user_id # u.id

\* C2: the list a user gets is exactly the stored todos this user owns, each
\* with its stored fields: none of another user's, none missing, and the
\* empty list with status 200 when the user owns none.
C2_ListIsExactlyOwned ==
    \A u \in KeyHolders(users, req.header) :
        req.op = "read_todos" =>
            /\ resp.status = 200
            /\ {r.id : r \in resp.rows} =
                    {t.id : t \in {x \in todos : x.user_id = u.id}}
            /\ \A r \in resp.rows : \E t \in todos :
                    /\ t.id = r.id /\ t.user_id = u.id
                    /\ t.title = r.title /\ t.description = r.description
                    /\ t.status = r.status /\ t.created_at = r.created_at

\* C2 happens: a user lists one todo while another user's todo is stored.
C2_Witness ==
    /\ req.op = "read_todos"
    /\ Cardinality(resp.rows) = 1
    /\ Cardinality(todos) = 2
    /\ KeyHolders(users, req.header) # {}

\* C3, as claimed: a request to a todo endpoint whose key is missing or is no
\* stored user's is answered 401, runs no statement on todos, and changes
\* neither table.
C3_Unauthenticated401 ==
    [][ (/\ req'.op \in TaskEndpoints
         /\ KeyHolders(users, req'.header) = {})
        => /\ resp'.status = 401
           /\ \A i \in 1..Len(calls') : calls'[i] = "SELECT users"
           /\ todos' = todos
           /\ users' = users
      ]_vars

\* What does hold of such a request: it is answered 401 when the header
\* carries a key no user holds, 401 or 403 when there is no header, and in
\* both cases no statement on todos runs and neither table changes.
RejectedBeforeTheStore ==
    [][ (/\ req'.op \in TaskEndpoints
         /\ KeyHolders(users, req'.header) = {})
        => /\ resp'.status \in
                (IF req'.header = None THEN NotAuthenticatedStatus ELSE {401})
           /\ \A i \in 1..Len(calls') : calls'[i] = "SELECT users"
           /\ todos' = todos
           /\ users' = users
      ]_vars

\* C4: every key handed out is stored with exactly one user, the one the
\* registration created, and get_current_user resolves it to that user; no
\* two users hold the same key.
C4_IssuedKeyResolvesToItsUser ==
    /\ \A i \in issued :
          /\ \E u \in users :
                /\ u.id = i.user_id /\ u.email = i.email
                /\ KeyHolders(users, Some(i.api_key)) = {u}
                /\ get_current_user(users, i.api_key) = Some(u)
    /\ \A u, v \in users : u.api_key = v.api_key => u = v

\* C4 happens: a second registration succeeded after a first one.
C4_Witness ==
    /\ req.op = "generate_api_key"
    /\ resp.status = 200
    /\ Cardinality(issued) = 2
    /\ Cardinality(users) = 2

\* C5: a registration with a stored user's email is answered 400 without an
\* API key and leaves the users unchanged; no two users have the same email.
C5_DuplicateEmailRejected ==
    [][ /\ (/\ req'.op = "generate_api_key"
            /\ \E u \in users : u.email = req'.email)
           => /\ resp'.status = 400
              /\ resp'.api_key = None
              /\ users' = users
        /\ \A u, v \in users' : u.email = v.email => u = v
      ]_vars

\* C5 happens: a registration with a taken email was answered 400.
C5_Witness ==
    /\ req.op = "generate_api_key"
    /\ resp.status = 400
    /\ \E u \in users : u.email = req.email

\* The row an update with this body should leave of row t.
Updated(t, b) ==
    [id |-> t.id,
     title |-> IF b.title = None THEN t.title ELSE b.title[1],
     description |-> IF b.description = None THEN t.description
                     ELSE b.description,
     status |-> IF b.status = None THEN t.status ELSE b.status[1],
     user_id |-> t.user_id,
     created_at |-> t.created_at]

\* C6: an update by the owner sets the supplied fields of the todo to the
\* supplied values and leaves its other fields, the other todos and the
\* users as they were, and returns the row; with no field supplied no
\* UPDATE runs, the tables are unchanged and the stored row is returned.
C6_UpdateSetsExactlyTheFields ==
    [][ req'.op = "update_todo" =>
        \A u \in KeyHolders(users, req'.header) :
        \A t \in OwnedBy(todos, req'.todo_id, u.id) :
        \A b \in TodoUpdate :
            update_todo(req'.header, req'.todo_id, b) =>
                /\ todos' = (todos \ {t}) \cup {Updated(t, b)}
                /\ users' = users
                /\ resp'.status = 200
                /\ resp'.rows =
                     {[id |-> t.id, title |-> Updated(t, b).title,
                       description |-> Updated(t, b).description,
                       status |-> Updated(t, b).status,
                       created_at |-> t.created_at]}
                /\ (b.title = None /\ b.description = None /\ b.status = None)
                   => /\ todos' = todos
                      /\ \A i \in 1..Len(calls') : calls'[i] # "UPDATE todos"
      ]_vars

\* C6 happens: an owner's update ran its UPDATE on one of two stored todos.
C6_Witness ==
    /\ req.op = "update_todo"
    /\ resp.status = 200
    /\ Len(calls) = 3
    /\ Cardinality(todos) = 2
    /\ \E r \in resp.rows : r.status = "completed" /\ r.title = ""

\* C7: a list by the creator that follows a create at once holds one todo
\* under the new id, with the submitted title and description and status
\* pending; the stored row is the creator's; no two stored todos share an
\* id; and when the creator owned none before, the list holds only this
\* todo.
C7_CreateThenList ==
    /\ \A t1, t2 \in todos : t1.id = t2.id => t1 = t2
    /\ (req.op = "read_todos" /\ last_create # None) =>
        LET c == last_create[1]
        IN  \A u \in KeyHolders(users, req.header) :
              u.id = c.user_id =>
                /\ resp.status = 200
                /\ \E r \in resp.rows :
                      /\ r.id = c.id
                      /\ r.title = c.todo.title
                      /\ r.description = c.todo.description
                      /\ r.status = "pending"
                      /\ \A q \in resp.rows : q.id = c.id => q = r
                      /\ c.first => resp.rows = {r}
                /\ \E t \in todos : t.id = c.id /\ t.user_id = u.id

\* C7 happens: the creator lists right after creating a first todo that has
\* a description, while another user's todo is stored.
C7_Witness ==
    /\ req.op = "read_todos"
    /\ last_create # None
    /\ last_create[1].first
    /\ last_create[1].todo.description # None
    /\ \E u \in KeyHolders(users, req.header) : u.id = last_create[1].user_id
    /\ Cardinality(todos) = 2

\* C8: a delete by the owner is answered 200 and removes that todo and no
\* other; a delete, by any user, of an id that was deleted before is
\* answered 404 and changes nothing, whatever was created since.
C8_DeleteOnce ==
    [][ req'.op = "delete_todo" =>
        \A u \in KeyHolders(users, req'.header) :
            /\ \A t \in OwnedBy(todos, req'.todo_id, u.id) :
                  /\ resp'.status = 200
                  /\ todos' = todos \ {t}
            /\ req'.todo_id \in deleted =>
                  resp' = NotFound /\ todos' = todos
      ]_vars

\* C8 happens: a second delete of a deleted id is answered 404 after a
\* further todo was created.
C8_Witness ==
    /\ req.op = "delete_todo"
    /\ resp = NotFound
    /\ KeyHolders(users, req.header) # {}
    /\ req.todo_id \in deleted
    /\ \E t \in todos : t.id > req.todo_id

\* C9, as claimed: a request that has passed its ownership check and is about
\* to run its UPDATE or DELETE still finds the todo it checked; every update
\* and delete ends 200 or 404 (or in the authentication error); and no two
\* deletes of one id are both answered 200 at once.
C9_CheckAndMutationAtomic ==
    /\ \A w \in Workers : inflight[w].pc = "mutate" =>
          OwnedBy(todos, inflight[w].todo_id, inflight[w].user_id) # {}
    /\ \A w \in Workers : inflight[w].pc = "done" =>
          inflight[w].status \in {200, 404, 401, 403}
    /\ \A w, v \in Workers :
          (/\ w # v
           /\ inflight[w].pc = "done" /\ inflight[v].pc = "done"
           /\ inflight[w].op = "delete_todo" /\ inflight[v].op = "delete_todo"
           /\ inflight[w].todo_id = inflight[v].todo_id
           /\ inflight[w].todo_id # 0)
          => ~(inflight[w].status = 200 /\ inflight[v].status = 200)

\* C10, as claimed: no stored todo has an empty title.
C10_TitleNonEmpty == \A t \in todos : t.title # ""

====
